---- MODULE Spec2Model ----
(***************************************************************************)
(* Model of the <chat-window> component                                    *)
(* (src/llm-assistant-frontend/src/components/chat-window.js).             *)
(*                                                                         *)
(* The component is a LitElement: its four reactive properties are set by  *)
(* the embedding application (the "collaborator"), a property change       *)
(* queues one update that runs as a microtask (render, firstUpdated,       *)
(* updated), user events reach handleKeyPress / handleInput / the click    *)
(* handler through the rendered textarea and button, and scrollToBottom    *)
(* defers its work to an animation-frame callback.                         *)
(*                                                                         *)
(* Event loop: a pending Lit update is a microtask, so it runs before any  *)
(* further task (user event, animation frame).  The collaborator may set   *)
(* several properties before the update runs (one batch).                  *)
(*                                                                         *)
(* The collaborator is not part of chat-window.js; it is modelled from the *)
(* specification as asynchronous, discrete property updates.               *)
(*                                                                         *)
(* The @rendered listener of each message row (line 193) never runs: no    *)
(* 'rendered' event is dispatched by the component or by the platform.     *)
(***************************************************************************)
EXTENDS Naturals, Sequences, FiniteSets

\* ------------------------------------------------------------------ bounds
\* Total rendered height of the message log (one unit per bubble plus one
\* unit per content token).
MaxLog == 2
\* Longest draft the textarea holds.
MaxDraft == 1
\* Most animation-frame callbacks that can be queued at once.
MaxPending == 2
\* Height of the visible part of the message log, in the same units.
ClientHeight == 1
\* Longest message content given to formatContent.
MaxMarkup == 3
\* Longest code block given to the highlight callback.
MaxCode == 2

VARIABLES
    \* reactive properties (static properties, lines 24-29)
    messages, inputText, isLoading, waitingForFirstToken,
    \* LitElement update machinery
    phase, hasUpdated, changedProperties,
    \* what render() last produced
    indicators, textareaDisabled, buttonDisabled, textareaValue, scrollHeight,
    \* the .messages-scroll viewport and the animation-frame queue
    scrollTop, scrollTarget, rafCallbacks,
    \* the viewport's scrollHeight when the oldest queued callback was
    \* requested (0 with none queued)
    calledAt,
    \* what the last step emitted / did
    emitted, defaultPrevented, scrollToCalls, updatedWith,
    \* for a step that called scrollTo: the scrollHeight at the time the
    \* oldest callback it ran was requested
    callHeight,
    \* collaborator: send-message events received since loading was cleared
    pendingSubmits,
    \* the last application of formatContent and of the highlight callback
    formatCall, highlightCall

props == <<messages, inputText, isLoading, waitingForFirstToken>>
lit == <<phase, hasUpdated, changedProperties>>
dom == <<indicators, textareaDisabled, buttonDisabled, textareaValue, scrollHeight>>
scroll == <<scrollTop, scrollTarget, rafCallbacks, calledAt>>
outputs == <<emitted, defaultPrevented, scrollToCalls, updatedWith, callHeight>>
pure == <<formatCall, highlightCall>>
vars == <<props, lit, dom, scroll, outputs, pendingSubmits, pure>>

\* ------------------------------------------------------------- data model
Roles == {"user", "assistant"}
Token == "t"
DraftChars == {"a", "\n"}
Keys == {"a", "Enter"}
PropertyNames == {"messages", "inputText", "isLoading", "waitingForFirstToken"}

Min(a, b) == IF a < b THEN a ELSE b

Contents == UNION {[1..n -> {Token}] : n \in 0..MaxLog}
Drafts == UNION {[1..n -> DraftChars] : n \in 0..MaxDraft}

\* Layout: a bubble is one unit high plus one per content token, plus one
\* for the typing indicator it carries.
BubbleHeight(message) == 1 + Len(message.content)

RECURSIVE LogHeight(_)
LogHeight(log) ==
    IF log = <<>> THEN 0
    ELSE BubbleHeight(Head(log)) + LogHeight(Tail(log))

InitialLogs ==
    {<<>>} \cup {<<[content |-> c, role |-> r]>> :
                    r \in Roles, c \in {k \in Contents : 1 + Len(k) <= MaxLog}}

\* The largest scroll offset of a viewport whose content is `height` high.
MaxScroll(height) == IF height > ClientHeight THEN height - ClientHeight ELSE 0

SendMessage == [type |-> "send-message"]
InputChange(value) == [type |-> "input-change", detail |-> value]

\* ------------------------------------------------------ content formatting
\* Message content and code, as strings over a few characters: a letter and
\* the characters HTML gives a meaning to.
MarkupChars == {"a", "<", "&"}
Markups == UNION {[1..n -> MarkupChars] : n \in 0..MaxMarkup}
CodeChars == {"k", "<"}
Codes == UNION {[1..n -> CodeChars] : n \in 0..MaxCode}
\* Language tags of a fenced block: none, one highlight.js knows, one it
\* does not.
Langs == {"", "js", "zz"}

\* markdown-it's escapeHtml.
RECURSIVE escapeHtml(_)
escapeHtml(str) ==
    IF str = <<>> THEN <<>>
    ELSE (CASE Head(str) = "<" -> <<"&lt;">>
            [] Head(str) = "&" -> <<"&amp;">>
            [] OTHER -> <<Head(str)>>) \o escapeHtml(Tail(str))

\* md.render(src), line 154, on text without block or inline syntax: one
\* paragraph of escaped text; nothing for empty text.
mdRender(src) ==
    IF src = <<>> THEN <<>>
    ELSE <<"<p>">> \o escapeHtml(src) \o <<"</p>", "\n">>

\* hljs.getLanguage(lang), line 14.
hljsGetLanguage(lang) == lang = "js"

\* hljs.highlight(str, {language}).value, line 16: keywords in spans, the
\* rest escaped.
RECURSIVE hljsHighlight(_)
hljsHighlight(str) ==
    IF str = <<>> THEN <<>>
    ELSE (CASE Head(str) = "k" -> <<"<span>", "k", "</span>">>
            [] Head(str) = "<" -> <<"&lt;">>
            [] OTHER -> <<Head(str)>>) \o hljsHighlight(Tail(str))

\* A highlight callback without the try/catch.
highlightUncaught(str, lang, hljsThrows) ==
    IF lang # "" /\ hljsGetLanguage(lang)
    THEN IF hljsThrows THEN [value |-> <<>>, threw |-> TRUE]
         ELSE [value |-> hljsHighlight(str), threw |-> FALSE]
    ELSE [value |-> <<>>, threw |-> FALSE]

\* The highlight callback given to MarkdownIt, lines 13-20.  `hljsThrows`
\* is whether hljs.highlight throws on this input.  `threw` is whether the
\* callback lets an exception out.
highlight(str, lang, hljsThrows) ==
    IF lang # "" /\ hljsGetLanguage(lang) /\ ~hljsThrows
    THEN [value |-> hljsHighlight(str), threw |-> FALSE]
    ELSE [value |-> <<>>, threw |-> FALSE]

\* markdown-it's fence rule around the callback: an empty result means
\* "use the default escaping" (line 19).
fenceBody(str, highlighted) ==
    IF highlighted.value = <<>> THEN escapeHtml(str) ELSE highlighted.value

\* A formatContent that renders every message as markup.
formatContentAlways(message) ==
    [value |-> mdRender(message.content), kind |-> "html",
     rendered |-> <<message.content>>]

\* formatContent(message), lines 152-157.  `rendered` lists what was
\* passed to md.render; `kind` is "html" for an unsafeHTML result and
\* "text" for a plain string.
formatContent(message) ==
    IF message.role = "assistant"
    THEN [value |-> mdRender(message.content), kind |-> "html",
          rendered |-> <<message.content>>]
    ELSE [value |-> message.content, kind |-> "text", rendered |-> <<>>]

NotCalled == [called |-> FALSE]

\* ------------------------------------------------- the component's methods
\* A handleKeyPress that forgets to look at the Shift key.
handleKeyPressAnyEnter(key, shiftKey) ==
    IF key = "Enter"
    THEN [prevented |-> TRUE, events |-> <<SendMessage>>]
    ELSE [prevented |-> FALSE, events |-> <<>>]

\* handleKeyPress(e), lines 139-144: what it does with a keypress event.
handleKeyPress(key, shiftKey) ==
    IF key = "Enter" /\ ~shiftKey
    THEN [prevented |-> TRUE, events |-> <<SendMessage>>]
    ELSE [prevented |-> FALSE, events |-> <<>>]

\* An input handler that reports an empty draft.
handleInputEmpty(value) == <<InputChange(<<>>)>>

\* handleInput(e), lines 146-150: one input-change carrying e.target.value.
handleInput(value) == <<InputChange(value)>>

\* A click handler that emits nothing.
handleClickNothing == <<>>

\* The send button's click handler, line 227.
handleClick == <<SendMessage>>

\* An indicator condition without the test for the last index.
IndicatorShownOnEveryAssistant(log, index, waiting) ==
    /\ log[index].role = "assistant"
    /\ waiting

\* An indicator condition without the test of waitingForFirstToken.
IndicatorShownOnLastAssistant(log, index, waiting) ==
    /\ log[index].role = "assistant"
    /\ index = Len(log)

\* render(), lines 199-201: is the typing indicator put in bubble `index`?
IndicatorShown(log, index, waiting) ==
    /\ log[index].role = "assistant"
    /\ index = Len(log)
    /\ waiting

\* A textarea that stays disabled whatever the loading flag is.
TextareaAlwaysDisabled(loading) == TRUE

\* render(), line 223: the textarea's disabled attribute.
TextareaDisabled(loading) == loading

\* A send button that is never disabled.
ButtonNeverDisabled(loading) == FALSE

\* render(), line 228: the send button's disabled attribute.
ButtonDisabled(loading) == loading

\* render(), lines 191-210: the bubbles that carry the indicator.
RenderIndicators(log, waiting) ==
    {i \in 1..Len(log) : IndicatorShown(log, i, waiting)}

\* Layout of what render() produced: the scroll height of .messages-scroll.
Layout(log, waiting) ==
    LogHeight(log) + Cardinality(RenderIndicators(log, waiting))

\* A scrollToBottom that scrolls at once instead of deferring to a frame.
scrollToBottomNow(s) ==
    [s EXCEPT !.target = MaxScroll(s.height), !.calls = @ + 1]

\* scrollToBottom(), lines 159-170: the synchronous part.  `s` is the
\* scroll state: raf (callbacks queued), top (scroll offset), target (where
\* the viewport is scrolling to), calls (scrollTo calls made in this step),
\* height (the viewport's scrollHeight), calledAt (the scrollHeight at the
\* oldest queued call).  The call only queues a callback.
scrollToBottom(s) ==
    [s EXCEPT !.raf = @ + 1,
              !.calledAt = IF s.raf = 0 THEN s.height ELSE @]

\* A callback that scrolls to the height measured when scrollToBottom was
\* called.
frameCallbackStale(s, container) ==
    IF container
    THEN [s EXCEPT !.target = MaxScroll(s.calledAt), !.calls = @ + 1]
    ELSE s

\* A callback without the `if (container)` test.
frameCallbackUnguarded(s, container) ==
    [s EXCEPT !.target = MaxScroll(s.height), !.calls = @ + 1]

\* The deferred callback of scrollToBottom, lines 160-169, run in an
\* animation frame.  `container` is whether querySelector finds the
\* viewport.  scrollTo clamps the requested top (the scrollHeight) to the
\* largest scroll offset and animates towards it (behavior: 'smooth').
frameCallback(s, container) ==
    IF container
    THEN [s EXCEPT !.target = MaxScroll(s.height), !.calls = @ + 1]
    ELSE s

\* An updated() that scrolls after every update.
updatedAlways(changed, s) == scrollToBottom(s)

\* updated(changedProperties), lines 172-176.
updated(changed, s) ==
    IF "messages" \in changed THEN scrollToBottom(s) ELSE s

\* firstUpdated(), lines 178-180.
firstUpdated(s) == scrollToBottom(s)

\* Lit calls firstUpdated (on the first update only) and then updated.
didUpdate(first, changed, s) ==
    updated(changed, IF first THEN firstUpdated(s) ELSE s)

\* The browser runs every callback queued for the frame, in order.
RECURSIVE runCallbacks(_, _)
runCallbacks(s, container) ==
    IF s.raf = 0 THEN s
    ELSE runCallbacks(frameCallback([s EXCEPT !.raf = @ - 1], container), container)

ScrollState == [calledAt |-> calledAt, height |-> scrollHeight,
                target |-> scrollTarget, calls |-> 0, raf |-> rafCallbacks,
                top |-> scrollTop]

\* ------------------------------------------------------------------ state
Init ==
    /\ messages \in InitialLogs
    /\ inputText = <<>>
    /\ isLoading = FALSE
    /\ waitingForFirstToken = FALSE
    /\ phase = "created"
    /\ hasUpdated = FALSE
    /\ changedProperties = PropertyNames
    /\ indicators = {}
    /\ textareaDisabled = FALSE
    /\ buttonDisabled = FALSE
    /\ textareaValue = <<>>
    /\ scrollHeight = 0
    /\ scrollTop = 0
    /\ scrollTarget = 0
    /\ rafCallbacks = 0
    /\ calledAt = 0
    /\ emitted = <<>>
    /\ defaultPrevented = FALSE
    /\ scrollToCalls = 0
    /\ callHeight = 0
    /\ updatedWith = {}
    /\ pendingSubmits = "none"
    /\ formatCall = NotCalled
    /\ highlightCall = NotCalled

\* A handler that sets the loading flag itself when it runs.
propertiesAfterHandlerLoading(p) == [p EXCEPT !.isLoading = TRUE]

\* The reactive properties after a user-event handler or a frame callback
\* ran, lines 139-170 and 227: none of them assigns to this.messages,
\* this.inputText, this.isLoading or this.waitingForFirstToken.
propertiesAfterHandler(p) == p

HandlerProperties ==
    LET p == propertiesAfterHandler(
                [messages |-> messages, inputText |-> inputText,
                 isLoading |-> isLoading,
                 waitingForFirstToken |-> waitingForFirstToken])
    IN /\ messages' = p.messages
       /\ inputText' = p.inputText
       /\ isLoading' = p.isLoading
       /\ waitingForFirstToken' = p.waitingForFirstToken

\* A step that emits no event, makes no scrollTo call and is no update.
Quiet ==
    /\ emitted' = <<>>
    /\ defaultPrevented' = FALSE
    /\ scrollToCalls' = 0
    /\ callHeight' = 0
    /\ updatedWith' = {}
    /\ UNCHANGED pure

\* The viewport element exists: the component is in the document and has
\* rendered.
ViewportExists == phase = "connected" /\ hasUpdated

\* A Lit update is queued (a microtask that runs before any other task).
UpdatePending == phase = "connected" /\ changedProperties # {}

\* The page can deliver a user event to the rendered controls.
Interactive == ViewportExists /\ ~UpdatePending

Scrolling == scrollTarget # scrollTop

\* ----------------------------------------------------- LitElement lifecycle
\* connectedCallback: the element enters the document; updates may run.
Connect ==
    /\ phase = "created"
    /\ phase' = "connected"
    /\ Quiet
    /\ UNCHANGED <<props, hasUpdated, changedProperties, dom, scroll, pendingSubmits>>

\* performUpdate: render(), then firstUpdated (first time) and updated.
PerformUpdate ==
    /\ UpdatePending
    /\ LET height == Layout(messages, waitingForFirstToken)
           top == Min(scrollTop, MaxScroll(height))
           laidOut == [ScrollState EXCEPT
                          !.height = height, !.top = top,
                          !.target = IF Scrolling THEN scrollTarget ELSE top]
           s == didUpdate(~hasUpdated, changedProperties, laidOut)
       IN /\ indicators' = RenderIndicators(messages, waitingForFirstToken)
          /\ textareaDisabled' = TextareaDisabled(isLoading)
          /\ buttonDisabled' = ButtonDisabled(isLoading)
          /\ textareaValue' = IF "inputText" \in changedProperties
                              THEN inputText ELSE textareaValue
          /\ scrollHeight' = height
          /\ scrollTop' = s.top
          /\ scrollTarget' = s.target
          /\ rafCallbacks' = s.raf
          /\ calledAt' = s.calledAt
          /\ scrollToCalls' = s.calls
          /\ callHeight' = 0
    /\ hasUpdated' = TRUE
    /\ changedProperties' = {}
    /\ updatedWith' = changedProperties
    /\ emitted' = <<>>
    /\ defaultPrevented' = FALSE
    /\ UNCHANGED <<props, phase, pendingSubmits, pure>>

\* The host removes the component together with its rendered tree: the
\* viewport element is gone, callbacks already queued still run.
Teardown ==
    /\ Interactive
    /\ phase' = "torndown"
    /\ Quiet
    /\ UNCHANGED <<props, hasUpdated, changedProperties, dom, scroll, pendingSubmits>>

\* ------------------------------------------------------------ collaborator
\* The collaborator's send-message listener: it counts the submit signals it
\* received since it last cleared the loading flag, as none, one or many.
onSendMessage(n, events) ==
    LET got == Cardinality({i \in 1..Len(events) : events[i] = SendMessage})
    IN IF got = 0 THEN n
       ELSE IF n = "none" /\ got = 1 THEN "one"
       ELSE "many"

\* A property assignment the component sees as a change: requestUpdate
\* records the property for the next update.  The collaborator commits each
\* property at most once per update.
Commit(names) ==
    /\ phase # "torndown"
    /\ names \cap changedProperties = {}
    /\ changedProperties' = changedProperties \cup names
    /\ Quiet
    /\ UNCHANGED <<phase, hasUpdated, dom, scroll>>

LastIsEmptyAssistant(log) ==
    /\ log # <<>>
    /\ log[Len(log)].role = "assistant"
    /\ log[Len(log)].content = <<>>

\* Submission in flight: the collaborator sets the loading flag some time
\* after it received a submit signal.
BeginLoading ==
    /\ pendingSubmits # "none"
    /\ ~isLoading
    /\ isLoading' = TRUE
    /\ Commit({"isLoading"})
    /\ UNCHANGED <<messages, inputText, waitingForFirstToken, pendingSubmits>>

\* The external loading flag is cleared (and with it the waiting flag, which
\* is true only while loading).
ClearLoading ==
    /\ isLoading
    /\ isLoading' = FALSE
    /\ waitingForFirstToken' = FALSE
    /\ pendingSubmits' = "none"
    /\ Commit({"isLoading"} \cup
              IF waitingForFirstToken THEN {"waitingForFirstToken"} ELSE {})
    /\ UNCHANGED <<messages, inputText>>

\* A message is appended (a new array is assigned).  An empty assistant
\* message appended while loading may come with the waiting flag set.
AppendMessage(message, waiting) ==
    /\ ~waitingForFirstToken
    /\ rafCallbacks < MaxPending
    /\ LogHeight(messages) + BubbleHeight(message) <= MaxLog
    /\ waiting => isLoading /\ LastIsEmptyAssistant(<<message>>)
    /\ messages' = Append(messages, message)
    /\ waitingForFirstToken' = waiting
    /\ Commit({"messages"} \cup IF waiting THEN {"waitingForFirstToken"} ELSE {})
    /\ UNCHANGED <<inputText, isLoading, pendingSubmits>>

\* The waiting flag is set on its own: only while loading and before any
\* content of the newest assistant message has arrived.
ShowWaiting ==
    /\ ~waitingForFirstToken
    /\ isLoading
    /\ LastIsEmptyAssistant(messages)
    /\ waitingForFirstToken' = TRUE
    /\ Commit({"waitingForFirstToken"})
    /\ UNCHANGED <<messages, inputText, isLoading, pendingSubmits>>

\* The waiting flag is cleared on its own.
HideWaiting ==
    /\ waitingForFirstToken
    /\ waitingForFirstToken' = FALSE
    /\ Commit({"waitingForFirstToken"})
    /\ UNCHANGED <<messages, inputText, isLoading, pendingSubmits>>

\* Streaming: a token is added to the content of the last (assistant)
\* message, by assigning a new array; the waiting flag is cleared with it.
StreamToken ==
    /\ isLoading
    /\ messages # <<>>
    /\ messages[Len(messages)].role = "assistant"
    /\ LogHeight(messages) < MaxLog
    /\ rafCallbacks < MaxPending
    /\ messages' = [messages EXCEPT ![Len(messages)].content = Append(@, Token)]
    /\ waitingForFirstToken' = FALSE
    /\ Commit({"messages"} \cup
              IF waitingForFirstToken THEN {"waitingForFirstToken"} ELSE {})
    /\ UNCHANGED <<inputText, isLoading, pendingSubmits>>

\* The controlled draft: the collaborator stores the text it was told about
\* by input-change, or resets the draft to empty.
SetInputText(value) ==
    /\ hasUpdated
    /\ value \in {textareaValue, <<>>}
    /\ value # inputText
    /\ inputText' = value
    /\ Commit({"inputText"})
    /\ UNCHANGED <<messages, isLoading, waitingForFirstToken, pendingSubmits>>

\* ------------------------------------------------------------- user events
\* A keypress on the textarea.  handleKeyPress runs; unless it prevented the
\* default action the browser inserts the character (a newline for Enter)
\* and fires an input event, which runs handleInput.
KeyPress(key, shiftKey) ==
    /\ Interactive
    /\ ~textareaDisabled
    /\ LET k == handleKeyPress(key, shiftKey)
           char == IF key = "Enter" THEN "\n" ELSE key
           value == IF k.prevented THEN textareaValue
                    ELSE Append(textareaValue, char)
       IN /\ Len(value) <= MaxDraft
          /\ textareaValue' = value
          /\ defaultPrevented' = k.prevented
          /\ emitted' = IF k.prevented THEN k.events
                        ELSE k.events \o handleInput(value)
    /\ pendingSubmits' = onSendMessage(pendingSubmits, emitted')
    /\ scrollToCalls' = 0
    /\ callHeight' = 0
    /\ updatedWith' = {}
    /\ HandlerProperties
    /\ UNCHANGED <<lit, indicators, textareaDisabled, buttonDisabled,
                   scrollHeight, scroll, pure>>

\* Any other edit of the textarea (deleting, pasting): an input event.
InputEdit(value) ==
    /\ Interactive
    /\ ~textareaDisabled
    /\ value # textareaValue
    /\ textareaValue' = value
    /\ emitted' = handleInput(value)
    /\ defaultPrevented' = FALSE
    /\ scrollToCalls' = 0
    /\ callHeight' = 0
    /\ updatedWith' = {}
    /\ HandlerProperties
    /\ UNCHANGED <<lit, indicators, textareaDisabled, buttonDisabled,
                   scrollHeight, scroll, pendingSubmits, pure>>

\* A click on the send button.
ClickSend ==
    /\ Interactive
    /\ ~buttonDisabled
    /\ emitted' = handleClick
    /\ pendingSubmits' = onSendMessage(pendingSubmits, emitted')
    /\ defaultPrevented' = FALSE
    /\ scrollToCalls' = 0
    /\ callHeight' = 0
    /\ updatedWith' = {}
    /\ HandlerProperties
    /\ UNCHANGED <<lit, dom, scroll, pure>>

\* ------------------------------------------------------- animation frames
\* An animation frame: every queued callback of scrollToBottom runs.
Frame ==
    /\ ~UpdatePending
    /\ rafCallbacks > 0
    /\ LET s == runCallbacks(ScrollState, ViewportExists)
       IN /\ rafCallbacks' = s.raf
          /\ scrollTop' = s.top
          /\ scrollTarget' = s.target
          /\ calledAt' = 0
          /\ scrollToCalls' = s.calls
          /\ callHeight' = IF s.calls > 0 THEN calledAt ELSE 0
    /\ emitted' = <<>>
    /\ defaultPrevented' = FALSE
    /\ updatedWith' = {}
    /\ HandlerProperties
    /\ UNCHANGED <<lit, dom, pendingSubmits, pure>>

\* The smooth scroll started by scrollTo arrives (never beyond the largest
\* scroll offset of the current layout).
ScrollAnimate ==
    /\ ViewportExists
    /\ ~UpdatePending
    /\ Scrolling
    /\ scrollTop' = Min(scrollTarget, MaxScroll(scrollHeight))
    /\ scrollTarget' = scrollTop'
    /\ Quiet
    /\ UNCHANGED <<props, lit, dom, rafCallbacks, calledAt, pendingSubmits>>

\* ---------------------------------------------------------- specification
User ==
    \/ \E key \in Keys, shiftKey \in BOOLEAN : KeyPress(key, shiftKey)
    \/ \E value \in Drafts : InputEdit(value)
    \/ ClickSend

Collaborator ==
    \/ BeginLoading
    \/ ClearLoading
    \/ \E r \in Roles, c \in Contents, w \in BOOLEAN :
          AppendMessage([content |-> c, role |-> r], w)
    \/ ShowWaiting
    \/ HideWaiting
    \/ StreamToken
    \/ \E value \in Drafts : SetInputText(value)

Next ==
    \/ Connect
    \/ PerformUpdate
    \/ Teardown
    \/ User
    \/ Frame
    \/ ScrollAnimate
    \/ Collaborator

Spec == Init /\ [][Next]_vars

TypeOK ==
    /\ isLoading \in BOOLEAN
    /\ waitingForFirstToken \in BOOLEAN
    /\ inputText \in Drafts
    /\ textareaValue \in Drafts
    /\ LogHeight(messages) <= MaxLog
    /\ phase \in {"created", "connected", "torndown"}
    /\ changedProperties \subseteq PropertyNames
    /\ rafCallbacks \in 0..MaxPending
    /\ calledAt \in 0..(MaxLog + 1)
    /\ callHeight \in 0..(MaxLog + 1)
    /\ scrollTop \in 0..(MaxLog + 1)
    /\ scrollTarget \in 0..(MaxLog + 1)
    /\ updatedWith \subseteq PropertyNames
    /\ pendingSubmits \in {"none", "one", "many"}

\* ----------------------------------------------------------------- claims
Events(seq) == {seq[i] : i \in 1..Len(seq)}

\* Everything the collaborator set has been rendered.
Rendered == hasUpdated /\ changedProperties = {}

\* C1: in every rendered state the typing indicator is attached to the
\* bubble of message i if and only if i is the last index, that message is
\* from the assistant and waitingForFirstToken is true; so a render after
\* the flag became false shows no indicator, whatever the messages are.
C1_IndicatorOnlyOnLastWaitingAssistant ==
    Rendered =>
        /\ indicators \subseteq 1..Len(messages)
        /\ \A i \in 1..Len(messages) :
              i \in indicators <=>
                 /\ i = Len(messages)
                 /\ messages[i].role = "assistant"
                 /\ waitingForFirstToken
        /\ (~waitingForFirstToken => indicators = {})

\* A rendered log of two assistant messages of which only the last carries
\* the indicator.
C1_Witness ==
    /\ Rendered
    /\ Len(messages) = 2
    /\ messages[1].role = "assistant"
    /\ indicators = {2}

\* C2: while isLoading is true no step emits a send-message or an
\* input-change event, and the draft in the textarea changes only when a
\* render writes the collaborator's inputText into it.
C2_InertWhileLoading ==
    [][isLoading =>
          /\ emitted' = <<>>
          /\ (textareaValue' # textareaValue =>
                 /\ updatedWith' # {}
                 /\ textareaValue' = inputText)]_vars

\* The composer rendered as disabled, with a draft in it.
C2_Witness ==
    /\ Interactive
    /\ isLoading
    /\ textareaDisabled
    /\ buttonDisabled
    /\ textareaValue # <<>>

\* C3: in state Idle, Enter without Shift emits exactly one send-message and
\* suppresses the default action (the draft is unchanged); Enter with Shift
\* emits no send-message, does not suppress the default action (the draft
\* grows by exactly one newline) and leaves the composer Idle; any other
\* key emits no send-message.
C3_EnterSubmitsShiftEnterBreaksLine ==
    [][\A key \in Keys, shiftKey \in BOOLEAN :
          (~isLoading /\ KeyPress(key, shiftKey)) =>
             IF key = "Enter" /\ ~shiftKey
             THEN /\ emitted' = <<SendMessage>>
                  /\ defaultPrevented'
                  /\ textareaValue' = textareaValue
             ELSE IF key = "Enter"
             THEN /\ SendMessage \notin Events(emitted')
                  /\ ~defaultPrevented'
                  /\ textareaValue' = Append(textareaValue, "\n")
                  /\ ~isLoading'
             ELSE SendMessage \notin Events(emitted')]_vars

\* Enter was pressed on a non-empty draft in state Idle: one send-message,
\* default action suppressed.
C3_Witness ==
    /\ Interactive
    /\ ~isLoading
    /\ textareaValue # <<>>
    /\ defaultPrevented
    /\ emitted = <<SendMessage>>

\* C4: between one submit and the next clearing of the loading flag no
\* second send-message event is emitted.
C4_NoSecondSubmitBeforeCleared == pendingSubmits # "many"

\* C5: calls of scrollToBottom before the next animation frame are
\* coalesced: at most one callback is pending and at most one scrollTo is
\* executed in a frame.
C5_ScrollCallsCoalesced == rafCallbacks <= 1 /\ scrollToCalls <= 1

\* A step that is one Lit update (render, firstUpdated, updated).
UpdateStep == changedProperties # {} /\ updatedWith' # {}

C9_ScrollDeferredToFrame ==
    [][/\ rafCallbacks' > rafCallbacks =>
             /\ scrollToCalls' = 0
             /\ scrollTop' = scrollTop
             /\ scrollTarget' = scrollTarget
       /\ scrollToCalls' > 0 =>
             /\ ~UpdatePending
             /\ rafCallbacks > 0
             /\ rafCallbacks' = 0]_vars

\* A scroll is scheduled and the viewport has not moved yet.
C9_Witness ==
    /\ ViewportExists
    /\ rafCallbacks > 0
    /\ ~Scrolling
    /\ scrollTop < MaxScroll(scrollHeight)

FairSpec ==
    /\ Spec
    /\ WF_vars(PerformUpdate)
    /\ SF_vars(Frame)
    /\ SF_vars(ScrollAnimate)

\* The viewport shows the end of the rendered log.
AtBottom == Rendered /\ scrollTop = MaxScroll(scrollHeight)

\* C6: after any mutation of the message sequence the viewport is
\* eventually scrolled to its maximum scroll offset (unless the component
\* is torn down first).
C6_MutationLeadsToBottom ==
    ("messages" \in updatedWith) ~> (AtBottom \/ phase = "torndown")

\* ------------------------------------------- formatting, on its own inputs
\* formatContent applied to one message.
FormatContent(message) ==
    /\ formatCall' = [message |-> message, called |-> TRUE,
                      result |-> formatContent(message)]
    /\ highlightCall' = NotCalled
    /\ UNCHANGED <<props, lit, dom, scroll, outputs, pendingSubmits>>

\* The highlight callback applied to one fenced block.
Highlight(str, lang, hljsThrows) ==
    /\ LET h == highlight(str, lang, hljsThrows)
       IN highlightCall' = [str |-> str, lang |-> lang,
                            hljsThrows |-> hljsThrows, called |-> TRUE,
                            result |-> h, body |-> fenceBody(str, h)]
    /\ formatCall' = NotCalled
    /\ UNCHANGED <<props, lit, dom, scroll, outputs, pendingSubmits>>

FormatNext ==
    \/ \E r \in Roles, c \in Markups : FormatContent([content |-> c, role |-> r])
    \/ \E str \in Codes, lang \in Langs, hljsThrows \in BOOLEAN :
          Highlight(str, lang, hljsThrows)

FormatSpec == Init /\ [][FormatNext]_vars

\* C11: for a message with role user formatContent returns the content
\* unchanged, as plain text, and passes nothing to the markup renderer; a
\* message with role assistant is passed to the markup renderer.
C11_UserContentLiteral ==
    formatCall.called =>
       IF formatCall.message.role = "user"
       THEN /\ formatCall.result.kind = "text"
            /\ formatCall.result.value = formatCall.message.content
            /\ formatCall.result.rendered = <<>>
       ELSE formatCall.result.rendered = <<formatCall.message.content>>

\* A user message with markup-like content came back unchanged.
C11_Witness ==
    /\ formatCall.called
    /\ formatCall.message.role = "user"
    /\ formatCall.message.content = <<"<", "a", "&">>
    /\ formatCall.result.value = <<"<", "a", "&">>

\* C12: the highlight callback returns the highlighted markup when the
\* language is recognised and highlighting succeeds, and otherwise (no
\* language, unknown language, the highlighter throws) the empty fallback
\* that leaves the block as escaped plain text; it never lets an exception
\* out.
C12_HighlightOrFallback ==
    highlightCall.called =>
       /\ ~highlightCall.result.threw
       /\ IF /\ highlightCall.lang = "js"
             /\ ~highlightCall.hljsThrows
          THEN highlightCall.result.value = hljsHighlight(highlightCall.str)
          ELSE /\ highlightCall.result.value = <<>>
               /\ highlightCall.body = escapeHtml(highlightCall.str)

\* The highlighter threw on a block of a recognised language and the block
\* is rendered as escaped text.
C12_Witness ==
    /\ highlightCall.called
    /\ highlightCall.lang = "js"
    /\ highlightCall.hljsThrows
    /\ highlightCall.str = <<"k", "<">>
    /\ highlightCall.body = <<"k", "&lt;">>

\* C13: in every rendered state the textarea is disabled if and only if the
\* send button is disabled if and only if isLoading is true; so once a
\* cleared loading flag has been rendered, typing and submitting are
\* possible again.
C13_DisabledIffLoading ==
    /\ Rendered =>
          /\ textareaDisabled = isLoading
          /\ buttonDisabled = isLoading
    /\ (Interactive /\ ~isLoading) =>
          /\ ENABLED KeyPress("Enter", FALSE)
          /\ ENABLED ClickSend

\* The render of a cleared loading flag: the composer is back in Idle.
C13_Witness ==
    /\ Interactive
    /\ ~isLoading
    /\ updatedWith = {"isLoading"}
    /\ ~textareaDisabled
    /\ ~buttonDisabled

\* C14: the policy for an empty or whitespace-only draft is the same on
\* both submit paths.  Neither path looks at the draft: for every draft
\* value Enter without Shift and a click on the send button each emit
\* exactly one send-message.
C14_SubmitPathsAgree ==
    [][(KeyPress("Enter", FALSE) \/ ClickSend) =>
          /\ emitted' = <<SendMessage>>
          /\ textareaValue' = textareaValue]_vars

\* A click submitted a whitespace-only draft.
C14_Witness ==
    /\ Interactive
    /\ textareaValue = <<"\n">>
    /\ emitted = <<SendMessage>>
    /\ ~defaultPrevented

\* C15: every input event on the textarea (an edit, or a key press whose
\* default action was not suppressed) emits exactly one input-change event
\* whose payload is the textarea's text after the edit; every send-message
\* event carries no payload.
C15_InputChangeCarriesDraft ==
    [][/\ ((\E value \in Drafts : InputEdit(value))
            \/ (\E key \in Keys, shiftKey \in BOOLEAN :
                   KeyPress(key, shiftKey) /\ ~defaultPrevented'))
          => emitted' = <<[type |-> "input-change", detail |-> textareaValue']>>
       /\ \A e \in Events(emitted') :
             e.type = "send-message" => DOMAIN e = {"type"}]_vars

\* A key was typed: one input-change with the new draft.
C15_Witness ==
    /\ Interactive
    /\ textareaValue = <<"a">>
    /\ emitted = <<[type |-> "input-change", detail |-> <<"a">>]>>

\* C16: the first update of the component schedules exactly one
\* scroll-to-bottom callback, and each later update in which messages
\* changed schedules exactly one.
C16_OneScrollPerUpdate ==
    [][UpdateStep =>
          IF ~hasUpdated
          THEN rafCallbacks' = rafCallbacks + 1
          ELSE ("messages" \in changedProperties =>
                   rafCallbacks' = rafCallbacks + 1)]_vars

\* C17: the user-event handlers (key press, input, click) and scrollToBottom
\* (called by an update, run by an animation frame) leave messages,
\* inputText, isLoading and waitingForFirstToken unchanged; these change
\* only in steps of the collaborator (no step of the component, the user or
\* the browser changes them).
C17_HandlersLeaveProperties ==
    [][\/ UNCHANGED props
       \/ ~(User \/ Frame \/ PerformUpdate \/ ScrollAnimate
              \/ Connect \/ Teardown)]_vars

\* The user typed into the textarea: the component reported the draft and
\* left its own inputText as the collaborator had set it.
C17_Witness ==
    /\ Interactive
    /\ emitted = <<[type |-> "input-change", detail |-> textareaValue]>>
    /\ textareaValue # inputText
    /\ messages # <<>>

\* C18: the scroll target is read when the deferred callback runs, not when
\* scrollToBottom is called: every scrollTo made by a frame targets the
\* bottom of the layout as it is in that frame, also when the layout grew
\* after the call.
C18_TargetReadAtFrame ==
    [][scrollToCalls' > 0 =>
          /\ scrollTarget' = MaxScroll(scrollHeight)
          /\ scrollHeight' = scrollHeight]_vars

\* A frame scrolled to a bottom that lies below the one at the time
\* scrollToBottom was called.
C18_Witness ==
    /\ scrollToCalls > 0
    /\ callHeight < scrollHeight
    /\ MaxScroll(callHeight) < MaxScroll(scrollHeight)
    /\ scrollTarget = MaxScroll(scrollHeight)

====
